---- MODULE Spec2Model ----
(***************************************************************************)
(* Model of the financial advisor application:                             *)
(*   src/data_processor.py  ingestion adapters, metrics, health score      *)
(*   src/ai_analyzer.py     narrative advisor (AI service + fallback)      *)
(*   src/app.py             HTTP endpoints and the per-session snapshot    *)
(*                                                                         *)
(* Representation.                                                         *)
(*  - A Python str is a sequence of one-character strings, so that         *)
(*    str.lower(), str.strip() and str.title() are computed character by   *)
(*    character.                                                           *)
(*  - A Python float is a record [k, v]: k = "num" with the integer value  *)
(*    v, k = "nan" for NaN, k = "none" for a None found where a number is  *)
(*    expected.  Amounts are whole currency units.  A value rounded with   *)
(*    round(x, 2) is held in hundredths.  For whole amounts the float      *)
(*    comparisons of the code (pct <= 30, savings >= -income * 0.1) agree  *)
(*    with the exact rational comparisons used here, and round(x, 2) is    *)
(*    rounding to the nearest hundredth (a tie needs an income divisible   *)
(*    by 32, which the inputs below avoid).                                *)
(***************************************************************************)
EXTENDS Integers, Sequences, FiniteSets, TLC

VARIABLES
    session,    \* session['financial_data'] (app.py), NoData when absent
    client,     \* ai_analyzer._client: "None" or "Groq"
    api_key,    \* whether GROQ_API_KEY is set in the process environment
    now,        \* datetime.now(), a logical clock
    request,    \* the request being/last handled
    response,   \* the response to it (NoResponse before it is handled)
    called      \* the components the handler invoked for that request

vars == <<session, client, api_key, now, request, response, called>>

\* requests handled after which the model stops the clock
MaxTime == 3
\* fields of a manual submission, rows of a CSV file
MaxFields == 2
MaxRows == 2

---------------------------------------------------------------------------
(* Python strings *)

LowerCase == <<"a","b","c","d","e","f","g","h","i","j","k","l","m",
               "n","o","p","q","r","s","t","u","v","w","x","y","z">>
UpperCase == <<"A","B","C","D","E","F","G","H","I","J","K","L","M",
               "N","O","P","Q","R","S","T","U","V","W","X","Y","Z">>

IsUpper(c) == \E i \in DOMAIN UpperCase : UpperCase[i] = c
IsLower(c) == \E i \in DOMAIN LowerCase : LowerCase[i] = c
IsLetter(c) == IsUpper(c) \/ IsLower(c)

ToLowerChar(c) ==
    IF IsUpper(c) THEN LowerCase[CHOOSE i \in DOMAIN UpperCase : UpperCase[i] = c]
    ELSE c
ToUpperChar(c) ==
    IF IsLower(c) THEN UpperCase[CHOOSE i \in DOMAIN LowerCase : LowerCase[i] = c]
    ELSE c

\* str.lower()
StrLower(s) == [i \in DOMAIN s |-> ToLowerChar(s[i])]

\* str.title(): a letter is upper-cased when it starts a word (it is first,
\* or follows a non-letter) and lower-cased otherwise.
StrTitle(s) ==
    [i \in DOMAIN s |->
        IF i = 1 \/ ~IsLetter(s[i - 1]) THEN ToUpperChar(s[i])
        ELSE ToLowerChar(s[i])]

\* str.strip()
RECURSIVE StrLStrip(_)
StrLStrip(s) == IF s # <<>> /\ Head(s) = " " THEN StrLStrip(Tail(s)) ELSE s
RECURSIVE StrRStrip(_)
StrRStrip(s) ==
    IF s # <<>> /\ s[Len(s)] = " " THEN StrRStrip(SubSeq(s, 1, Len(s) - 1)) ELSE s
StrStrip(s) == StrRStrip(StrLStrip(s))

---------------------------------------------------------------------------
(* Python floats *)

Num(v) == [k |-> "num", v |-> v]
NaN == [k |-> "nan", v |-> 0]
PyNone == [k |-> "none", v |-> 0]

IsNum(a) == a.k = "num"

\* a + b and a - b; NaN is absorbing
FAdd(a, b) == IF IsNum(a) /\ IsNum(b) THEN Num(a.v + b.v) ELSE NaN
FSub(a, b) == IF IsNum(a) /\ IsNum(b) THEN Num(a.v - b.v) ELSE NaN

\* a > 0; every comparison with NaN is False
FPos(a) == IsNum(a) /\ a.v > 0

\* n / d rounded to the nearest integer (ties to even), d > 0
RoundDiv(n, d) ==
    LET q == n \div d
        r == n % d
    IN  IF 2 * r > d \/ (2 * r = d /\ q % 2 = 1) THEN q + 1 ELSE q

\* round((a / income) * 100, 2) in hundredths, for income > 0
RoundPct(a, income) ==
    IF IsNum(a) THEN Num(RoundDiv(a.v * 10000, income.v)) ELSE NaN

---------------------------------------------------------------------------
(* data_processor.py *)

Rent == <<"R","e","n","t">>
Food == <<"F","o","o","d">>
Transportation == <<"T","r","a","n","s","p","o","r","t","a","t","i","o","n">>
Shopping == <<"S","h","o","p","p","i","n","g">>
Entertainment == <<"E","n","t","e","r","t","a","i","n","m","e","n","t">>
EMI == <<"E","M","I">>
Utilities == <<"U","t","i","l","i","t","i","e","s">>
Healthcare == <<"H","e","a","l","t","h","c","a","r","e">>
Others == <<"O","t","h","e","r","s">>

EXPENSE_CATEGORIES ==
    <<Rent, Food, Transportation, Shopping, Entertainment, EMI, Utilities,
      Healthcare, Others>>

Categories == {EXPENSE_CATEGORIES[i] : i \in DOMAIN EXPENSE_CATEGORIES}

\* the snapshot stored when nothing has been ingested (session.get -> None)
NoData == [source |-> "absent"]
HasData(fd) == fd.source # "absent"

\* sum(expenses.values()), in the order of the dict
RECURSIVE SumFrom(_, _)
SumFrom(expenses, i) ==
    IF i > Len(EXPENSE_CATEGORIES) THEN Num(0)
    ELSE FAdd(expenses[EXPENSE_CATEGORIES[i]], SumFrom(expenses, i + 1))
SumValues(expenses) == SumFrom(expenses, 1)

\* The derived metrics both adapters compute from income and expenses
\* (process_manual_data lines 34-53, process_csv_data lines 86-105).
Snapshot(income, expenses, month, source) ==
    LET total_expenses == SumValues(expenses)
        savings == FSub(income, total_expenses)
    IN  [ income |-> income,
          expenses |-> expenses,
          total_expenses |-> total_expenses,
          savings |-> savings,
          savings_rate |->
              IF FPos(income) THEN RoundPct(savings, income) ELSE Num(0),
          expense_percentages |->
              [c \in DOMAIN expenses |->
                  IF FPos(income) THEN RoundPct(expenses[c], income) ELSE Num(0)],
          month |-> month,
          timestamp |-> now,
          source |-> source ]

\* a JSON value of a manual submission
JNumber(n) == [t |-> "number", v |-> n, s |-> ""]    \* 1200
JNumStr(n) == [t |-> "numstr", v |-> n, s |-> ""]    \* "1200"
JText == [t |-> "text", v |-> 0, s |-> "abc"]        \* "abc"
JNull == [t |-> "null", v |-> 0, s |-> ""]           \* null
JLabel(s) == [t |-> "text", v |-> 0, s |-> s]        \* "March 2025"

\* float(x): ValueError on non-numeric text, TypeError on None
PyFloat(x) ==
    CASE x.t \in {"number", "numstr"} -> [ok |-> TRUE, val |-> Num(x.v), err |-> ""]
      [] x.t = "text" -> [ok |-> FALSE, val |-> NaN, err |-> "ValueError"]
      [] OTHER -> [ok |-> FALSE, val |-> NaN, err |-> "TypeError"]

\* dict.get(key, default)
DictGet(d, key, default) == IF key \in DOMAIN d THEN d[key] ELSE default

IncomeKey == <<"i","n","c","o","m","e">>
MonthKey == <<"m","o","n","t","h">>
CurrentMonth == "strftime(%B %Y)"

Returned(v) == [ok |-> TRUE, val |-> v]
Raised == [ok |-> FALSE, val |-> NoData]

\* process_manual_data with the CSV adapter's leniency: a value float()
\* rejects counts as 0
process_manual_data_lenient(data) ==
    LET amount(x) == IF PyFloat(x).ok THEN PyFloat(x).val ELSE Num(0)
        month == IF MonthKey \in DOMAIN data THEN data[MonthKey].s ELSE CurrentMonth
    IN  Returned(Snapshot(amount(DictGet(data, IncomeKey, JNumber(0))),
                          [c \in Categories |->
                              amount(DictGet(data, StrLower(c), JNumber(0)))],
                          month, "manual"))

\* lines 22-56
process_manual_data(data) ==
    LET income == PyFloat(DictGet(data, IncomeKey, JNumber(0)))
        parsed == [c \in Categories |-> PyFloat(DictGet(data, StrLower(c), JNumber(0)))]
        month == IF MonthKey \in DOMAIN data THEN data[MonthKey].s ELSE CurrentMonth
    IN  IF income.ok /\ \A c \in Categories : parsed[c].ok
        THEN Returned(Snapshot(income.val, [c \in Categories |-> parsed[c].val],
                               month, "manual"))
        ELSE Raised

\* A cell of the amount column as pandas.read_csv hands it over:
\*   numeric text            -> the number
\*   "N/A", "NA", "", "nan"  -> NaN (read_csv's default na_values)
\*   other text              -> the str, on which float() raises ValueError
CellNum(n) == [t |-> "numeric", v |-> n]
CellNA == [t |-> "na", v |-> 0]
CellText == [t |-> "text", v |-> 0]

\* lines 74-77: float(row.get("amount", 0)) with ValueError -> 0
RowAmount(cell) ==
    CASE cell.t = "numeric" -> Num(cell.v)
      [] cell.t = "na" -> NaN
      [] OTHER -> Num(0)

Income == <<"I","n","c","o","m","e">>

\* lines 72-84: the loop over df.iterrows(), on state [income, expenses]
RECURSIVE FoldRows(_, _, _)
FoldRows(rows, income, expenses) ==
    IF rows = <<>> THEN [income |-> income, expenses |-> expenses]
    ELSE LET row == Head(rows)
             category == StrTitle(StrStrip(row.category))
             amount == RowAmount(row.amount)
         IN  IF category = Income
             THEN FoldRows(Tail(rows), amount, expenses)
             ELSE IF category \in DOMAIN expenses
             THEN FoldRows(Tail(rows), income,
                           [expenses EXCEPT ![category] = FAdd(@, amount)])
             ELSE FoldRows(Tail(rows), income,
                           [expenses EXCEPT ![Others] = FAdd(@, amount)])

process_csv_data(file) ==
    IF ~file.readable THEN Raised
    ELSE LET acc == FoldRows(file.rows, Num(0), [c \in Categories |-> Num(0)])
         IN  Returned(Snapshot(acc.income, acc.expenses, CurrentMonth, "csv"))

\* lines 123-131: savings rate (40 points); savings_rate is in hundredths
SavingsRatePoints(fd) ==
    LET savings_rate == fd.savings_rate
    IN  IF ~IsNum(savings_rate) THEN 0
        ELSE IF savings_rate.v >= 3000 THEN 40
        ELSE IF savings_rate.v >= 2000 THEN 30
        ELSE IF savings_rate.v >= 1000 THEN 20
        ELSE IF savings_rate.v >= 500 THEN 10
        ELSE 0

\* lines 133-137: positive savings (20 points)
PositiveSavingsPoints(fd) ==
    IF FPos(fd.savings) THEN 20
    ELSE IF IsNum(fd.savings) /\ IsNum(fd.income)
            /\ 10 * fd.savings.v >= -fd.income.v THEN 10
    ELSE 0

\* EmiPoints with the bands closed on the wrong side (< for <=)
EmiPointsStrict(fd) ==
    LET emi == fd.expenses[EMI]
        income == fd.income
    IN  IF ~FPos(income) THEN 20
        ELSE IF ~IsNum(emi) THEN 0
        ELSE IF emi.v = 0 THEN 20
        ELSE IF 100 * emi.v < 30 * income.v THEN 15
        ELSE IF 100 * emi.v < 40 * income.v THEN 10
        ELSE IF 100 * emi.v < 50 * income.v THEN 5
        ELSE 0

\* lines 139-150: EMI burden (20 points);
\* emi_pct = (emi / income * 100) if income > 0 else 0
EmiPoints(fd) ==
    LET emi == fd.expenses[EMI]
        income == fd.income
    IN  IF ~FPos(income) THEN 20
        ELSE IF ~IsNum(emi) THEN 0
        ELSE IF emi.v = 0 THEN 20
        ELSE IF 100 * emi.v <= 30 * income.v THEN 15
        ELSE IF 100 * emi.v <= 40 * income.v THEN 10
        ELSE IF 100 * emi.v <= 50 * income.v THEN 5
        ELSE 0

\* max(positive_expenses)
MaxOf(S) == CHOOSE x \in S : \A y \in S : y <= x

\* lines 152-163: expense balance (20 points)
ExpenseBalancePoints(fd) ==
    LET positive_expenses ==
            {fd.expenses[c].v : c \in {d \in DOMAIN fd.expenses : FPos(fd.expenses[d])}}
        income == fd.income
    IN  IF positive_expenses = {} \/ ~FPos(income) THEN 0
        ELSE LET m == MaxOf(positive_expenses)
             IN  IF 100 * m <= 30 * income.v THEN 20
                 ELSE IF 100 * m <= 40 * income.v THEN 15
                 ELSE IF 100 * m <= 50 * income.v THEN 10
                 ELSE IF 100 * m <= 60 * income.v THEN 5
                 ELSE 0

\* line 165: max(0, min(100, score))
Clamp(score) ==
    LET capped == IF score < 100 THEN score ELSE 100
    IN  IF capped > 0 THEN capped ELSE 0

\* lines 167-176
HealthResult(score) ==
    IF score >= 80 THEN [score |-> score, status |-> "Excellent", color |-> "green"]
    ELSE IF score >= 60 THEN [score |-> score, status |-> "Good", color |-> "lightgreen"]
    ELSE IF score >= 40 THEN [score |-> score, status |-> "Fair", color |-> "orange"]
    ELSE [score |-> score, status |-> "Needs Improvement", color |-> "red"]

\* ErrorResult with a sentinel score
ErrorResultSentinel == [score |-> -1, status |-> "Error", color |-> "gray"]

\* lines 178-179: the result when the computation raised
ErrorResult == [score |-> 0, status |-> "Error", color |-> "gray"]

\* A None where a number is expected makes a comparison or a division of
\* lines 124-153 raise TypeError, whichever field holds it.
ScoreRaises(fd) ==
    \/ fd.income.k = "none"
    \/ fd.savings.k = "none"
    \/ fd.savings_rate.k = "none"
    \/ \E c \in DOMAIN fd.expenses : fd.expenses[c].k = "none"

calculate_financial_health(fd) ==
    IF ScoreRaises(fd) THEN ErrorResult
    ELSE HealthResult(Clamp(SavingsRatePoints(fd) + PositiveSavingsPoints(fd)
                            + EmiPoints(fd) + ExpenseBalancePoints(fd)))

---------------------------------------------------------------------------
(* ai_analyzer.py *)

\* The texts the advisor returns.  A rule-based report is held by the parts
\* its template chooses; the service's text is opaque.
Text(kind) == [kind |-> kind, health |-> "", recs |-> <<>>, highlight |-> ""]
NoText == Text("none")
ServiceText == Text("service")               \* completion.choices[0].message.content
ChatUnavailable == Text("chat_unavailable")  \* lines 112-115
ChatTrouble == Text("chat_trouble")          \* lines 152-155

\* What the environment does during one request: whether Groq(api_key=...)
\* succeeds if it is attempted, and whether the completion call returns.
Envs == [create_ok : BOOLEAN, call_ok : BOOLEAN]
NoEnv == [create_ok |-> FALSE, call_ok |-> FALSE]

\* lines 13-32; ret is what the caller gets and what _client holds afterwards
get_client(env) ==
    IF client # "None" THEN [ret |-> client, tried |-> FALSE]
    ELSE IF ~api_key THEN [ret |-> "None", tried |-> FALSE]
    ELSE IF env.create_ok THEN [ret |-> "Groq", tried |-> TRUE]
    ELSE [ret |-> "None", tried |-> TRUE]

\* Python truthiness of a number: 0 and None are falsy, NaN is truthy
Truthy(a) == a.k = "nan" \/ (a.k = "num" /\ a.v # 0)

\* lines 158-204
get_rule_based_analysis(fd) ==
    LET income == fd.income
        savings == fd.savings
        savings_rate == fd.savings_rate
        emi == fd.expenses[EMI]
        health ==
            IF IsNum(savings_rate) /\ savings_rate.v >= 2000 THEN "excellent"
            ELSE IF IsNum(savings_rate) /\ savings_rate.v >= 1000 THEN "good"
            ELSE IF IsNum(savings_rate) /\ savings_rate.v > 0 THEN "improving"
            ELSE "warning"
        \* emi_pct = (emi / income) * 100 > 40
        emi_rec ==
            IF Truthy(emi) /\ Truthy(income) /\ IsNum(emi) /\ IsNum(income)
               /\ ( (income.v > 0 /\ 100 * emi.v > 40 * income.v)
                  \/ (income.v < 0 /\ 100 * emi.v < 40 * income.v) )
            THEN <<"reduce_emi">> ELSE <<>>
        savings_rec ==
            IF IsNum(savings_rate) /\ savings_rate.v < 2000 /\ Truthy(income)
            THEN <<"increase_savings">> ELSE <<>>
    IN  [kind |-> "rule_based",
         health |-> health,
         recs |-> emi_rec \o savings_rec,
         highlight |-> IF FPos(savings) THEN "discipline" ELSE "first_step"]

\* get_rule_based_analysis compares savings_rate and savings with numbers:
\* a None there raises TypeError
RuleBasedRaises(fd) == fd.savings_rate.k = "none" \/ fd.savings.k = "none"

RuleBased(fd, c, trace) ==
    IF RuleBasedRaises(fd)
    THEN [ok |-> FALSE, val |-> NoText, client |-> c, trace |-> trace]
    ELSE [ok |-> TRUE, val |-> get_rule_based_analysis(fd), client |-> c,
          trace |-> trace \cup {"get_rule_based_analysis"}]

\* Formatting a None with ":,.2f", or comparing it with 0, raises TypeError
\* while the prompt is built (lines 46-66, 117-125).
PromptRaises(fd) ==
    HasData(fd) /\ (ScoreRaises(fd) \/ fd.total_expenses.k = "none")

\* analyze_finances without the except of lines 99-101: a failing
\* completion call propagates
analyze_finances_uncaught(fd, env) ==
    LET c == get_client(env)
        t0 == IF c.tried THEN {"Groq()"} ELSE {}
    IN  IF c.ret = "None" THEN RuleBased(fd, c.ret, t0)
        ELSE IF ~PromptRaises(fd) /\ env.call_ok
        THEN [ok |-> TRUE, val |-> ServiceText, client |-> c.ret,
              trace |-> t0 \cup {"chat.completions.create"}]
        ELSE [ok |-> FALSE, val |-> NoText, client |-> c.ret,
              trace |-> t0 \cup {"chat.completions.create"}]

\* lines 35-101
analyze_finances(fd, env) ==
    LET c == get_client(env)
        t0 == IF c.tried THEN {"Groq()"} ELSE {}
    IN  IF c.ret = "None" THEN RuleBased(fd, c.ret, t0)
        ELSE IF PromptRaises(fd) THEN RuleBased(fd, c.ret, t0)
        ELSE IF env.call_ok
        THEN [ok |-> TRUE, val |-> ServiceText, client |-> c.ret,
              trace |-> t0 \cup {"chat.completions.create"}]
        ELSE RuleBased(fd, c.ret, t0 \cup {"chat.completions.create"})

\* lines 104-155; financial_data ({} when the session holds none) is only
\* formatted into the prompt
chat_with_ai(user_message, fd, env) ==
    LET c == get_client(env)
        t0 == IF c.tried THEN {"Groq()"} ELSE {}
    IN  IF c.ret = "None"
        THEN [ok |-> TRUE, val |-> ChatUnavailable, client |-> c.ret, trace |-> t0]
        ELSE IF PromptRaises(fd)
        THEN [ok |-> TRUE, val |-> ChatTrouble, client |-> c.ret, trace |-> t0]
        ELSE [ok |-> TRUE,
              val |-> IF env.call_ok THEN ServiceText ELSE ChatTrouble,
              client |-> c.ret,
              trace |-> t0 \cup {"chat.completions.create"}]

---------------------------------------------------------------------------
(* app.py *)

NoHealth == [score |-> 0, status |-> "absent", color |-> ""]

Resp(endpoint, status, success, message) ==
    [endpoint |-> endpoint, status |-> status, success |-> success,
     message |-> message, template |-> "", data |-> NoData,
     analysis |-> NoText, health_score |-> NoHealth, reply |-> NoText]

Page(endpoint, template, error, data) ==
    [Resp(endpoint, 200, error = "", error) EXCEPT !.template = template, !.data = data]

NoResponse == Resp("none", 0, FALSE, "")
NoRequest == [endpoint |-> "none", body |-> <<>>, env |-> NoEnv]
Req(endpoint, body, env) == [endpoint |-> endpoint, body |-> body, env |-> env]

\* the clock has not reached the end of the modelled time
ClockRuns == now < MaxTime

\* lines 34-54
process_manual(data) ==
    LET r == process_manual_data(data)
    IN  /\ ClockRuns
        /\ request' = Req("process-manual", data, NoEnv)
        /\ called' = {"process_manual_data"}
        /\ IF r.ok
           THEN /\ session' = r.val
                /\ response' = [Resp("process-manual", 200, TRUE,
                                     "Data processed successfully!")
                                    EXCEPT !.data = r.val]
           ELSE /\ session' = session
                /\ response' = Resp("process-manual", 400, FALSE,
                                    "Error processing data")
        /\ now' = now + 1
        /\ UNCHANGED <<client, api_key>>

\* str.endswith
EndsWith(s, suffix) ==
    Len(s) >= Len(suffix) /\ SubSeq(s, Len(s) - Len(suffix) + 1, Len(s)) = suffix

DotCsv == <<".","c","s","v">>

\* lines 57-91; an upload is [has_file, filename, file]
process_csv(upload) ==
    /\ ClockRuns
    /\ request' = Req("process-csv", upload, NoEnv)
    /\ IF ~upload.has_file
       THEN /\ response' = Resp("process-csv", 400, FALSE, "No file uploaded")
            /\ UNCHANGED session
            /\ called' = {}
       ELSE IF upload.filename = <<>>
       THEN /\ response' = Resp("process-csv", 400, FALSE, "No file selected")
            /\ UNCHANGED session
            /\ called' = {}
       ELSE IF ~EndsWith(upload.filename, DotCsv)
       THEN /\ response' = Resp("process-csv", 400, FALSE, "Please upload a CSV file")
            /\ UNCHANGED session
            /\ called' = {}
       ELSE LET r == process_csv_data(upload.file)
            IN  /\ called' = {"process_csv_data"}
                /\ IF r.ok
                   THEN /\ session' = r.val
                        /\ response' = [Resp("process-csv", 200, TRUE,
                                             "CSV processed successfully!")
                                            EXCEPT !.data = r.val]
                   ELSE /\ session' = session
                        /\ response' = Resp("process-csv", 400, FALSE,
                                            "Error processing CSV")
    /\ now' = now + 1
    /\ UNCHANGED <<client, api_key>>

EnterDataFirst == "Please enter your financial data first"

\* dashboard reading the snapshot with session.pop
dashboard_pop ==
    /\ request' = Req("dashboard", <<>>, NoEnv)
    /\ response' = IF ~HasData(session)
                   THEN Page("dashboard", "input.html", EnterDataFirst, NoData)
                   ELSE Page("dashboard", "dashboard.html", "", session)
    /\ called' = {}
    /\ session' = NoData
    /\ UNCHANGED <<client, api_key, now>>

\* lines 94-101
dashboard ==
    /\ request' = Req("dashboard", <<>>, NoEnv)
    /\ response' = IF ~HasData(session)
                   THEN Page("dashboard", "input.html", EnterDataFirst, NoData)
                   ELSE Page("dashboard", "dashboard.html", "", session)
    /\ called' = {}
    /\ UNCHANGED <<session, client, api_key, now>>

\* the dict the handlers read with session.get('financial_data', {})
EmptyData ==
    [income |-> Num(0), expenses |-> [c \in Categories |-> Num(0)],
     total_expenses |-> Num(0), savings |-> Num(0), savings_rate |-> Num(0),
     source |-> "absent"]

\* analyze reading the session as chat does, with a {} default and no
\* check that a snapshot is stored
analyze_unguarded(env) ==
    LET fd == IF HasData(session) THEN session ELSE EmptyData
        analysis == analyze_finances(fd, env)
    IN  /\ request' = Req("analyze", <<>>, env)
        /\ client' = analysis.client
        /\ response' = [Resp("analyze", 200, TRUE, "") EXCEPT
                           !.analysis = analysis.val,
                           !.health_score = calculate_financial_health(fd)]
        /\ called' = analysis.trace \cup
                        {"analyze_finances", "calculate_financial_health"}
        /\ UNCHANGED <<session, api_key, now>>

\* lines 104-131
analyze(env) ==
    /\ request' = Req("analyze", <<>>, env)
    /\ IF ~HasData(session)
       THEN /\ response' = Resp("analyze", 400, FALSE,
                                "No financial data found. Please enter data first.")
            /\ called' = {}
            /\ UNCHANGED client
       ELSE LET analysis == analyze_finances(session, env)
            IN  /\ client' = analysis.client
                /\ IF analysis.ok
                   THEN /\ response' =
                              [Resp("analyze", 200, TRUE, "") EXCEPT
                                  !.analysis = analysis.val,
                                  !.health_score = calculate_financial_health(session)]
                        /\ called' = analysis.trace \cup
                              {"analyze_finances", "calculate_financial_health"}
                   ELSE /\ response' = Resp("analyze", 400, FALSE, "Error analyzing data")
                        /\ called' = analysis.trace \cup {"analyze_finances"}
    /\ UNCHANGED <<session, api_key, now>>

\* lines 134-153; body is [json, message]: json is FALSE when request.json
\* raises or is not an object
chat(body, env) ==
    /\ request' = Req("chat", body, env)
    /\ IF ~body.json
       THEN /\ response' = Resp("chat", 400, FALSE, "Error in chat")
            /\ called' = {}
            /\ UNCHANGED client
       ELSE LET r == chat_with_ai(body.message, session, env)
            IN  /\ client' = r.client
                /\ response' = [Resp("chat", 200, TRUE, "") EXCEPT !.reply = r.val]
                /\ called' = r.trace \cup {"chat_with_ai"}
    /\ UNCHANGED <<session, api_key, now>>

\* lines 156-163
chat_page ==
    /\ request' = Req("chat-page", <<>>, NoEnv)
    /\ response' = IF ~HasData(session)
                   THEN Page("chat-page", "input.html", EnterDataFirst, NoData)
                   ELSE Page("chat-page", "chat.html", "", session)
    /\ called' = {}
    /\ UNCHANGED <<session, client, api_key, now>>

---------------------------------------------------------------------------
(* Requests *)

Dict1(k1, v1) == k1 :> v1
Dict2(k1, v1, k2, v2) == (k1 :> v1) @@ (k2 :> v2)
Dict3(k1, v1, k2, v2, k3, v3) == (k1 :> v1) @@ (k2 :> v2) @@ (k3 :> v3)

\* field names and CSV labels in several casings
rent_lc == StrLower(Rent)
rent_uc == <<"R","E","N","T">>
rent_sp == <<" ","r","e","n","t"," ">>
emi_lc == StrLower(EMI)
food_lc == StrLower(Food)
gym_lc == <<"g","y","m">>
Gym == <<"G","y","m">>

\* the manual submissions of the session model
ManualBodies ==
    { Dict3(IncomeKey, JNumStr(100), rent_lc, JNumStr(30), emi_lc, JNumStr(20)),
      Dict2(IncomeKey, JNumber(100), rent_lc, JNumber(60)),
      Dict3(IncomeKey, JNumber(50), food_lc, JNumber(60), MonthKey, JLabel("March 2025")),
      <<>>,
      Dict3(IncomeKey, JNumStr(100), Rent, JNumStr(30), gym_lc, JNumStr(20)),
      Dict2(IncomeKey, JText, rent_lc, JNumStr(30)),
      Dict2(IncomeKey, JNumStr(100), emi_lc, JNull) }

CsvFile(rows) == [readable |-> TRUE, rows |-> rows]
Unreadable == [readable |-> FALSE, rows |-> <<>>]
Row(category, amount) == [category |-> category, amount |-> amount]

Upload(filename, file) == [has_file |-> TRUE, filename |-> filename, file |-> file]
NoUpload == [has_file |-> FALSE, filename |-> <<>>, file |-> Unreadable]
DataCsv == <<"d","a","t","a",".","c","s","v">>
NotesTxt == <<"n","o","t","e","s",".","t","x","t">>

\* the uploads of the session model
Uploads ==
    { NoUpload,
      Upload(<<>>, CsvFile(<<>>)),
      Upload(NotesTxt, CsvFile(<<Row(Income, CellNum(100))>>)),
      Upload(DataCsv, Unreadable),
      Upload(DataCsv, CsvFile(<<Row(Income, CellNum(100)), Row(Rent, CellNum(30))>>)),
      Upload(DataCsv, CsvFile(<<Row(Income, CellNum(40)), Row(IncomeKey, CellNum(50)),
                                Row(EMI, CellNum(20))>>)),
      Upload(DataCsv, CsvFile(<<Row(Income, CellNum(100)), Row(rent_lc, CellNA),
                                Row(Food, CellText), Row(Rent, CellNum(10))>>)) }

ChatBodies == { [json |-> FALSE, message |-> ""],
                [json |-> TRUE, message |-> "How much should I save?"] }

\* the manual submissions of the adapter model: up to MaxFields fields
ManualKeys == {IncomeKey, rent_lc, Rent, rent_uc, emi_lc, EMI, food_lc, gym_lc}
ManualVals == {JNumber(100), JNumStr(30), JText, JNull}
ManualInputs ==
    UNION { [K -> ManualVals] :
              K \in {L \in SUBSET ManualKeys : Cardinality(L) <= MaxFields} }
    \cup { Dict2(IncomeKey, v, MonthKey, JLabel("March 2025")) : v \in ManualVals }

\* the CSV files of the adapter model: up to MaxRows rows
CsvLabels == {Income, IncomeKey, Rent, rent_sp, rent_uc, EMI, Gym, Others}
CsvCells == {CellNum(100), CellNum(30), CellNA, CellText}
CsvRows == {Row(l, c) : l \in CsvLabels, c \in CsvCells}
CsvFiles ==
    {Unreadable} \cup
    UNION { {CsvFile(rows) : rows \in [1..n -> CsvRows]} : n \in 0..MaxRows }

---------------------------------------------------------------------------
(* The session: requests of one browser session, in any order *)

Init ==
    /\ session = NoData
    /\ client = "None"
    /\ api_key \in BOOLEAN
    /\ now = 0
    /\ request = NoRequest
    /\ response = NoResponse
    /\ called = {}

ProcessManual == \E data \in ManualBodies : process_manual(data)
ProcessCsv == \E upload \in Uploads : process_csv(upload)
Dashboard == dashboard
Analyze == \E env \in Envs : analyze(env)
Chat == \E body \in ChatBodies, env \in Envs : chat(body, env)
ChatPage == chat_page

Next == ProcessManual \/ ProcessCsv \/ Dashboard \/ Analyze \/ Chat \/ ChatPage

Spec == Init /\ [][Next]_vars

---------------------------------------------------------------------------
(* The adapters: one ingestion request, on a session with or without data *)

PriorData ==
    [process_manual_data(Dict2(IncomeKey, JNumber(100), food_lc, JNumber(10))).val
        EXCEPT !.timestamp = 0]

InitIngest ==
    /\ client = "None"
    /\ api_key = FALSE
    /\ now = 1
    /\ session \in {NoData, PriorData}
    /\ request \in
          {Req("process-manual", data, NoEnv) : data \in ManualInputs}
          \cup {Req("process-csv", Upload(DataCsv, file), NoEnv) : file \in CsvFiles}
    /\ response = NoResponse
    /\ called = {}

Pending == response.endpoint = "none"

HandleManual ==
    Pending /\ request.endpoint = "process-manual" /\ process_manual(request.body)
HandleCsv ==
    Pending /\ request.endpoint = "process-csv" /\ process_csv(request.body)

NextIngest == HandleManual \/ HandleCsv

SpecIngest == InitIngest /\ [][NextIngest]_vars

---------------------------------------------------------------------------
(* The health scorer: one call of calculate_financial_health *)

Expenses(rent, food, emi) ==
    [c \in Categories |->
        IF c = Rent THEN rent ELSE IF c = Food THEN food
        ELSE IF c = EMI THEN emi ELSE Num(0)]

\* snapshots as the metrics engine computes them; the amounts sit on and
\* next to the thresholds of the rubric for an income of 100
ScoreIncomes == {0, 100}
ScoreRents == {0, 30, 31, 40, 41, 50, 51, 60, 61}
ScoreFoods == {0, 5, 10, 20}
ScoreEmis == {-5, 0, 1, 30, 31, 40, 41, 50, 51}
ComputedSnapshots ==
    { Snapshot(Num(i), Expenses(Num(r), Num(f), Num(e)), CurrentMonth, "manual") :
        i \in ScoreIncomes, r \in ScoreRents, f \in ScoreFoods, e \in ScoreEmis }

\* income=50000, Rent 15000, Food 8000, EMI 20000
Scenario ==
    Snapshot(Num(50000), Expenses(Num(15000), Num(8000), Num(20000)),
             CurrentMonth, "manual")

\* dicts whose fields do not fit together, or hold NaN or None
AdversarialSnapshots ==
    { [Snapshot(Num(i), Expenses(Num(0), f, e), CurrentMonth, "csv")
          EXCEPT !.savings = sv, !.savings_rate = sr] :
        i \in ScoreIncomes,
        f \in {Num(70), NaN, PyNone},
        e \in {Num(0), Num(45), NaN},
        sv \in {Num(-50), Num(-11), Num(-10), Num(0), Num(1), NaN},
        sr \in {Num(-5000), Num(499), Num(500), Num(999), Num(1000), Num(1999),
                Num(2000), Num(2999), Num(3000), Num(100000), NaN, PyNone} }

ScoreInputs == ComputedSnapshots \cup {Scenario} \cup AdversarialSnapshots

InitScore ==
    /\ session = NoData
    /\ client = "None"
    /\ api_key = FALSE
    /\ now = 0
    /\ request \in {Req("calculate_financial_health", fd, NoEnv) : fd \in ScoreInputs}
    /\ response = NoResponse
    /\ called = {}

Score ==
    /\ Pending
    /\ request.endpoint = "calculate_financial_health"
    /\ response' = [Resp("calculate_financial_health", 0, TRUE, "") EXCEPT
                       !.health_score = calculate_financial_health(request.body)]
    /\ called' = {"calculate_financial_health"}
    /\ UNCHANGED <<session, client, api_key, now, request>>

NextScore == Score

SpecScore == InitScore /\ [][NextScore]_vars

---------------------------------------------------------------------------
(* Properties *)

Handled(endpoint) == response.endpoint = endpoint /\ request.endpoint = endpoint

\* C1: whatever dict calculate_financial_health is given (income 0, negative
\* savings, any expense amounts, NaN, a malformed field), the score it
\* returns is an integer between 0 and 100 inclusive.
C1_ScoreInRange ==
    Handled("calculate_financial_health") =>
        response.health_score.score \in 0..100

\* a call on an income of 0 with negative savings has returned
C1_Witness ==
    /\ Handled("calculate_financial_health")
    /\ request.body.income = Num(0)
    /\ request.body.savings = Num(-50)
    /\ request.body.savings_rate = Num(3000)
    /\ response.health_score.status # "Error"

\* The rubric as the specification words it, on percentages of income.
\* pct(a) <= t is written 100 * a <= t * income.
RubricSavingsRate(fd) ==
    LET sr == fd.savings_rate
    IN  IF IsNum(sr) /\ sr.v >= 30 * 100 THEN 40
        ELSE IF IsNum(sr) /\ sr.v >= 20 * 100 THEN 30
        ELSE IF IsNum(sr) /\ sr.v >= 10 * 100 THEN 20
        ELSE IF IsNum(sr) /\ sr.v >= 5 * 100 THEN 10
        ELSE 0
RubricPositiveSavings(fd) ==
    IF IsNum(fd.savings) /\ fd.savings.v > 0 THEN 20
    ELSE IF IsNum(fd.savings) /\ IsNum(fd.income)
            /\ 10 * fd.savings.v >= -fd.income.v THEN 10
    ELSE 0
RubricEmi(fd) ==
    LET emi == fd.expenses[EMI]
        income == fd.income
    IN  IF ~IsNum(income) \/ income.v = 0 THEN 20          \* EMI% is 0
        ELSE IF ~IsNum(emi) THEN 0
        ELSE IF emi.v = 0 THEN 20
        ELSE IF 100 * emi.v <= 30 * income.v THEN 15
        ELSE IF 100 * emi.v <= 40 * income.v THEN 10
        ELSE IF 100 * emi.v <= 50 * income.v THEN 5
        ELSE 0
RubricLargestExpense(fd) ==
    LET positive == {c \in Categories : IsNum(fd.expenses[c]) /\ fd.expenses[c].v > 0}
        income == fd.income
    IN  IF positive = {} \/ ~IsNum(income) \/ income.v = 0 THEN 0
        ELSE LET top == CHOOSE c \in positive :
                            \A d \in positive : fd.expenses[d].v <= fd.expenses[c].v
                 largest == fd.expenses[top].v
             IN  IF 100 * largest <= 30 * income.v THEN 20
                 ELSE IF 100 * largest <= 40 * income.v THEN 15
                 ELSE IF 100 * largest <= 50 * income.v THEN 10
                 ELSE IF 100 * largest <= 60 * income.v THEN 5
                 ELSE 0
RubricTotal(fd) ==
    RubricSavingsRate(fd) + RubricPositiveSavings(fd) + RubricEmi(fd)
    + RubricLargestExpense(fd)
RubricStatus(score) ==
    IF score >= 80 THEN <<"Excellent", "green">>
    ELSE IF score >= 60 THEN <<"Good", "lightgreen">>
    ELSE IF score >= 40 THEN <<"Fair", "orange">>
    ELSE <<"Needs Improvement", "red">>

AllZero == Snapshot(Num(0), Expenses(Num(0), Num(0), Num(0)), CurrentMonth, "manual")

\* C10: for every snapshot (no field None, income >= 0) the score is the sum
\* of the four rubric sub-scores clamped to [0,100], and status and color
\* follow the score; the 50000/15000/8000/20000 scenario has EMI sub-score
\* 10 and savings-rate sub-score 20; income 0 with no expenses scores >= 20.
C10_ScoreIsRubric ==
    (Handled("calculate_financial_health") /\ ~ScoreRaises(request.body)) =>
        LET fd == request.body
            h == response.health_score
            total == RubricTotal(fd)
        IN  /\ h.score = (IF total > 100 THEN 100 ELSE IF total < 0 THEN 0 ELSE total)
            /\ <<h.status, h.color>> = RubricStatus(h.score)
            /\ fd = Scenario =>
                  /\ EmiPoints(fd) = 10
                  /\ SavingsRatePoints(fd) = 20
                  /\ h.score = 20 + 20 + 10 + 15
            /\ fd = AllZero => h.score >= 20

\* the scenario of the specification has been scored
C10_Witness ==
    /\ Handled("calculate_financial_health")
    /\ request.body = Scenario
    /\ request.body.savings_rate = Num(1400)
    /\ response.health_score.status = "Good"

\* sum of the amounts at the positions I of a sequence of rows
RECURSIVE SumRows(_, _)
SumRows(rows, I) ==
    IF I = {} THEN Num(0)
    ELSE LET i == CHOOSE j \in I : TRUE
         IN  FAdd(RowAmount(rows[i].amount), SumRows(rows, I \ {i}))

\* sum of the parsed amounts under the keys K of a manual submission
RECURSIVE SumFields(_, _)
SumFields(data, K) ==
    IF K = {} THEN Num(0)
    ELSE LET k == CHOOSE j \in K : TRUE
         IN  FAdd(PyFloat(data[k]).val, SumFields(data, K \ {k}))

LowerNames == {StrLower(c) : c \in Categories}
Ingested == (Handled("process-manual") \/ Handled("process-csv")) /\ response.success

\* the label of a CSV row as the adapter normalises it
Normalised(row) == StrTitle(StrStrip(row.category))

\* C2: on both ingestion paths the snapshot's expenses have exactly the nine
\* schema categories as keys; a category absent from the input is 0; the
\* amount of every input label that is not a schema category (in any
\* casing; income and month aside) is added to "Others".
C2_FoldIntoOthers ==
    Ingested =>
        LET e == response.data.expenses
        IN  /\ DOMAIN e = Categories
            /\ Handled("process-manual") =>
                  LET data == request.body
                      unknown == {k \in DOMAIN data :
                                     /\ StrLower(k) \notin LowerNames \cup {IncomeKey, MonthKey}
                                     /\ PyFloat(data[k]).ok}
                      others == {k \in DOMAIN data : k = StrLower(Others)}
                  IN  /\ \A c \in Categories \ {Others} :
                            (\A k \in DOMAIN data : StrLower(k) # StrLower(c))
                                => e[c] = Num(0)
                      /\ e[Others] = SumFields(data, unknown \cup others)
            /\ Handled("process-csv") =>
                  LET rows == request.body.file.rows
                      other == {i \in DOMAIN rows :
                                   Normalised(rows[i]) \notin (Categories \ {Others}) \cup {Income}}
                  IN  /\ \A c \in Categories \ {Others} :
                            (\A i \in DOMAIN rows : Normalised(rows[i]) # c)
                                => e[c] = Num(0)
                      /\ e[Others] = SumRows(rows, other)

\* C3: a CSV row whose amount is not a number ("N/A", an empty cell, other
\* text) contributes exactly 0 to its category, later rows are still
\* processed, and the ingestion succeeds with numeric totals.
ZeroUnparseable(rows) ==
    [i \in DOMAIN rows |->
        IF rows[i].amount.t = "numeric" THEN rows[i]
        ELSE Row(rows[i].category, CellNum(0))]
C3_UnparseableRowCountsZero ==
    (Handled("process-csv") /\ request.body.file.readable) =>
        LET d == response.data
            expected == FoldRows(ZeroUnparseable(request.body.file.rows), Num(0),
                                 [c \in Categories |-> Num(0)])
        IN  /\ response.success
            /\ IsNum(d.income) /\ IsNum(d.total_expenses)
            /\ \A c \in Categories : IsNum(d.expenses[c])
            /\ d.expenses = expected.expenses
            /\ d.income = expected.income

\* the values process_manual_data parses: income and the field of every
\* category under the name it is read by
UnparseableManual(data) ==
    \/ IncomeKey \in DOMAIN data /\ data[IncomeKey].t \in {"text", "null"}
    \/ \E c \in Categories :
          StrLower(c) \in DOMAIN data /\ data[StrLower(c)].t \in {"text", "null"}

C8_CaseInsensitiveFields ==
    (Handled("process-manual") /\ response.success) =>
        \A c \in Categories : \A k \in DOMAIN request.body :
            ( /\ StrLower(k) = StrLower(c)
              /\ \A j \in DOMAIN request.body : StrLower(j) = StrLower(c) => j = k
              /\ PyFloat(request.body[k]).ok )
            => response.data.expenses[c] = PyFloat(request.body[k]).val

\* a row names a category when its label, stripped, is the category's name
\* as the schema spells it or as title-casing spells it
Names(row, c) == StrStrip(row.category) = c \/ Normalised(row) = c

\* C9: the CSV fold: income is the amount of the last row whose title-cased
\* category is "Income" (0 without one), a schema category's total is the
\* sum of the rows naming it, and "Others" is the sum of the rows named
\* "Others" and of the rows naming neither "Income" nor a schema category.
C9_CsvFold ==
    (Handled("process-csv") /\ response.success) =>
        LET rows == request.body.file.rows
            d == response.data
            incomes == {i \in DOMAIN rows : Normalised(rows[i]) = Income}
            last == CHOOSE i \in incomes : \A j \in incomes : j <= i
            named(c) == {i \in DOMAIN rows : Names(rows[i], c)}
            unnamed == {i \in DOMAIN rows :
                           /\ Normalised(rows[i]) # Income
                           /\ \A c \in Categories : ~Names(rows[i], c)}
        IN  /\ d.income = IF incomes = {} THEN Num(0) ELSE RowAmount(rows[last].amount)
            /\ \A c \in Categories \ {Others} : d.expenses[c] = SumRows(rows, named(c))
            /\ d.expenses[Others] = SumRows(rows, named(Others) \cup unnamed)

IngestEndpoints == {"process-manual", "process-csv"}

\* C5: within a session the stored snapshot is absent until an ingestion
\* succeeds; a successful ingestion replaces it by the snapshot it produced,
\* whole; a failed ingestion and the read endpoints leave it as it was.
C5_ReplacedWholesale ==
    [][ IF request'.endpoint \in IngestEndpoints /\ response'.success
        THEN /\ session' = response'.data
             /\ session' = (IF request'.endpoint = "process-manual"
                             THEN process_manual_data(request'.body).val
                             ELSE process_csv_data(request'.body.file).val)
        ELSE session' = session ]_vars

\* the snapshot of a second, CSV, ingestion is stored and a failed manual
\* submission has left it alone
C5_Witness ==
    /\ Handled("process-manual")
    /\ ~response.success
    /\ session.source = "csv"
    /\ session.timestamp = 1

\* C6: the advisor never raises on an ingested snapshot: analyze_finances
\* returns the service's text when the completion call returns and the
\* rule-based report when the credential is missing, the client cannot be
\* created or the call raises; chat_with_ai returns the service's text or a
\* static message; /analyze on a stored snapshot answers success=true with
\* an analysis and a health score.
C6_AdvisorNeverRaises ==
    LET called_service == "chat.completions.create" \in called
        served == called_service /\ request.env.call_ok
        no_client == ~api_key \/ ("Groq()" \in called /\ ~request.env.create_ok)
    IN  /\ (Handled("analyze") /\ HasData(session)) =>
              /\ response.success /\ response.status = 200
              /\ "analyze_finances" \in called
              /\ response.health_score = calculate_financial_health(session)
              /\ response.health_score.status # "absent"
              /\ response.analysis =
                    (IF served THEN ServiceText ELSE get_rule_based_analysis(session))
              /\ no_client => response.analysis.kind = "rule_based"
              /\ ~no_client => called_service
        /\ (Handled("chat") /\ request.body.json) =>
              /\ response.success /\ response.status = 200
              /\ response.reply.kind =
                    (IF served THEN "service"
                     ELSE IF called_service THEN "chat_trouble"
                     ELSE "chat_unavailable")
              /\ no_client => response.reply = ChatUnavailable
              /\ ~no_client => called_service

\* the completion call raised during /analyze and the rule-based report
\* was returned
C6_Witness ==
    /\ Handled("analyze")
    /\ HasData(session)
    /\ "chat.completions.create" \in called
    /\ ~request.env.call_ok
    /\ response.analysis.kind = "rule_based"
    /\ response.success

Advisor == {"analyze_finances", "chat_with_ai"}
Scorer == {"calculate_financial_health"}

\* the answer tells the user to enter data first
EnterDataAnswer ==
    \/ response.template = "input.html" /\ response.message = EnterDataFirst
    \/ /\ response.status = 400 /\ ~response.success
       /\ response.message = "No financial data found. Please enter data first."

\* C7 as stated: without a stored snapshot the dashboard, analyze and
\* (well-formed) chat requests each answer that data must be entered first
\* and call neither the advisor nor the scorer.
C7_Original ==
    ( \/ Handled("dashboard")
      \/ Handled("analyze")
      \/ Handled("chat") /\ request.body.json ) /\ ~HasData(session) =>
        /\ EnterDataAnswer
        /\ called \cap (Advisor \cup Scorer) = {}

\* C7 amended: without a stored snapshot the dashboard, analyze and
\* chat-page requests each answer that data must be entered first and call
\* neither the advisor nor the scorer; POST /chat does not: it calls
\* chat_with_ai with an empty context and answers success=true.
C7_MissingSnapshot ==
    ~HasData(session) =>
        /\ (Handled("dashboard") \/ Handled("analyze") \/ Handled("chat-page")) =>
              /\ EnterDataAnswer
              /\ called \cap (Advisor \cup Scorer) = {}
        /\ (Handled("chat") /\ request.body.json) =>
              /\ "chat_with_ai" \in called
              /\ response.success /\ response.status = 200
              /\ response.reply # NoText

\* /analyze was refused on a session without a snapshot
C7_Witness ==
    /\ Handled("analyze")
    /\ ~HasData(session)
    /\ response.status = 400
    /\ called = {}

====
